---------------------------- MODULE Spec2Model ----------------------------
(***************************************************************************)
(* Model of the weekly-brief program (kblka/weekly-brief):                 *)
(*   src/src/calendar_client.py  week window, fetch, merge, deduplicate    *)
(*   src/src/summarizer.py       narration (Gemini, Czech/English template)*)
(*   src/src/rss.py              feed.xml read / upsert / sort / write     *)
(*   src/run_brief.py, config.py the pipeline and its configuration        *)
(*                                                                         *)
(* Time is counted in seconds.  Day 0 of the model is a Monday.  A         *)
(* timezone is a fixed UTC offset (daylight-saving changes are not         *)
(* modelled).  An aware datetime is a record [wall, off]: the wall-clock   *)
(* reading in seconds and the UTC offset, so its instant is wall - off.    *)
(* Python compares, hashes and sorts aware datetimes by instant.           *)
(***************************************************************************)
EXTENDS Integers, Sequences, FiniteSets, TLC

VARIABLES
    now,            \* the clock: current instant (UTC seconds)
    tz,             \* config.TIMEZONE as a UTC offset in seconds
    week,           \* last result of _next_week_range (with the instant read)
    calendar_ids,   \* config.CALENDAR_IDS
    cal_pc,         \* position of get_next_week_events
    cal_i,          \* number of calendars of calendar_ids already processed
    window,         \* (start_dt, end_dt) sent as timeMin/timeMax
    all_events,     \* the list all_events of get_next_week_events
    fetched,        \* calendar ids on which events().list() was executed
    events_out,     \* the list returned by get_next_week_events
    cal_error,      \* the RuntimeError raised by get_next_week_events
    failed,         \* the events().list() call that raised, if any
    sum_args,       \* arguments of the generate_summary call
    genai,          \* what the generation capability did when it was called
    summary,        \* the text generate_summary returned
    sum_pc,         \* position of generate_summary
    feed,           \* the document feed.xml: whether it exists, and its items
    written,        \* the episodes last passed to generate_rss_feed
    last_call,      \* the last append_episode_to_feed call and the feed before it
    pc,             \* position of run_pipeline
    cfg,            \* config.py and the command line
    run_date,       \* date_str of run_pipeline
    summary_file,   \* weekly-brief-<date>.txt as written by save_summary
    mp3_file,       \* weekly-brief-<date>.mp3 as written by synthesize_to_file
    stages          \* the stages run_pipeline has gone through

vars == <<now, tz, week, calendar_ids, cal_pc, cal_i, window, all_events,
          fetched, events_out, cal_error, failed, sum_args, genai, summary, sum_pc,
          feed, written, last_call, pc, cfg, run_date, summary_file, mp3_file,
          stages>>

clockVars == <<now, tz>>
weekVars  == <<week>>
calVars   == <<calendar_ids, cal_pc, cal_i, window, all_events, fetched,
               events_out, cal_error, failed>>
sumVars   == <<sum_args, genai, summary, sum_pc>>

feedVars  == <<feed, written, last_call>>
pipeVars  == <<pc, cfg, run_date, summary_file, mp3_file, stages>>

outsideClock == <<weekVars, calVars, sumVars, feedVars, pipeVars>>
outsideWeek  == <<calVars, sumVars, feedVars, pipeVars>>
outsideCal   == <<weekVars, sumVars, feedVars>>
outsideSum   == <<weekVars, calVars, feedVars, pipeVars>>
outsideFeed  == <<weekVars, calVars, sumVars, pipeVars>>

-----------------------------------------------------------------------------
(* Bounds of the model *)

MaxDay == 8             \* the clock starts on one of the days 1..MaxDay
MaxItems == 2           \* items one events().list() call returns, at most
MaxEvents == 3          \* events in the list given to generate_summary
MaxGenChunks == 4       \* pieces a text of the generation capability is made of
SmallMaxWords == 3      \* a max_words argument below MAX_WORDS
MaxWeeks == 2           \* the feed holds episodes of the weeks 0..MaxWeeks
MaxEditedItems == 2     \* items of a feed document edited by hand, at most

-----------------------------------------------------------------------------
(* Time *)

HOUR == 60 * 60
DAY  == 24 * HOUR

\* datetime: instant of an aware datetime
Instant(dt) == dt.wall - dt.off

\* datetime.weekday(): Monday is 0
Weekday(wall) == (wall \div DAY) % 7

\* datetime.hour
HourOf(wall) == (wall % DAY) \div HOUR

\* datetime.minute
MinuteOf(wall) == (wall % HOUR) \div 60

\* datetime.now(tz)
NowIn(offset) == [wall |-> now + offset, off |-> offset]

TzOffsets == {0 - 5 * HOUR, 0, HOUR}

TimesOfDay == {0, 1, 5 * HOUR, 12 * HOUR, 23 * HOUR, DAY - 1}

Instants == {d * DAY + t : d \in 1..MaxDay, t \in TimesOfDay}

-----------------------------------------------------------------------------
(* calendar_client._next_week_range *)

\* The same computation without the "already Monday" adjustment.
DaysUntilMondaySameDay(n) == (7 - Weekday(n.wall)) % 7

\* days_until_monday of _next_week_range (and of _next_monday_date_str)
DaysUntilMonday(n) ==
    LET d == (7 - Weekday(n.wall)) % 7
    IN  IF d = 0 /\ HourOf(n.wall) >= 0 THEN 7 ELSE d

\* (now + timedelta(days)).replace(hour=0, minute=0, second=0, microsecond=0)
\* and next_monday + timedelta(days=6, hours=23, minutes=59, seconds=59)
_next_week_range(n) ==
    LET moved       == n.wall + DaysUntilMonday(n) * DAY
        next_monday == [wall |-> moved - (moved % DAY), off |-> n.off]
        next_sunday == [wall |-> next_monday.wall + 6 * DAY + 23 * HOUR + 59 * 60 + 59,
                        off  |-> n.off]
    IN  [start |-> next_monday, end |-> next_sunday]

NoWeek == [read |-> 0 - 1, start |-> [wall |-> 0, off |-> 0], end |-> [wall |-> 0, off |-> 0]]

\* One call of _next_week_range: reads the clock, returns the pair.
NextWeekRange ==
    /\ week' = [read  |-> now,
                start |-> _next_week_range(NowIn(tz)).start,
                end   |-> _next_week_range(NowIn(tz)).end]
    /\ UNCHANGED <<clockVars, outsideWeek>>

\* The clock advances (to a later instant of the grid).
Tick ==
    /\ \E t \in Instants : t > now /\ now' = t
    /\ UNCHANGED <<tz, outsideClock>>

-----------------------------------------------------------------------------
(* calendar_client.get_next_week_events *)

NoError == [cal_id |-> "", cause |-> ""]
NoWindow == [start |-> [wall |-> 0, off |-> 0], end |-> [wall |-> 0, off |-> 0]]

CalendarIdLists == {<<"primary">>, <<"primary", "work">>, <<"work", "primary">>,
                    <<"primary", "primary">>}

\* What events().list(timeMin, timeMax, singleEvents, orderBy=startTime)
\* may return: items inside the window.  A start is either
\*   [kind |-> "dateTime", wall, off]  an ISO string with an offset or a "Z"
\*   [kind |-> "date", wall]           a date: midnight of that day, naive
\* ZSuffix stands for the "Z" suffix of an ISO string.
ZSuffix == [z |-> TRUE]
Offset(o) == [z |-> FALSE, secs |-> o]

RawItems(w, o) ==
    LET tue14 == w.start.wall + DAY + 14 * HOUR
        mon09 == w.start.wall + 9 * HOUR
        tue   == w.start.wall + DAY
    IN  { [status |-> "confirmed", summary |-> <<"Dentist">>,
           start |-> [kind |-> "dateTime", wall |-> tue14, off |-> Offset(o)]],
          [status |-> "confirmed", summary |-> <<"Dentist">>,
           start |-> [kind |-> "dateTime", wall |-> tue14 - o, off |-> ZSuffix]],
          [status |-> "confirmed", summary |-> <<"Lunch">>,
           start |-> [kind |-> "dateTime", wall |-> tue14, off |-> Offset(o)]],
          [status |-> "cancelled", summary |-> <<"Standup">>,
           start |-> [kind |-> "dateTime", wall |-> mon09, off |-> Offset(o)]],
          [status |-> "confirmed", summary |-> <<"Standup">>,
           start |-> [kind |-> "dateTime", wall |-> mon09, off |-> Offset(o)]],
          [status |-> "confirmed", summary |-> <<>>,
           start |-> [kind |-> "date", wall |-> tue, off |-> Offset(0)]],
          [status |-> "confirmed", summary |-> <<"(No", " ", "title)">>,
           start |-> [kind |-> "date", wall |-> tue, off |-> Offset(0)]] }

\* datetime.fromisoformat(start_str.replace("Z", "+00:00")); for a date,
\* fromisoformat(date).replace(tzinfo=tz)
ParseStart(s, o) ==
    IF s.kind = "dateTime"
    THEN [wall |-> s.wall, off |-> IF s.off.z THEN 0 ELSE s.off.secs]
    ELSE [wall |-> s.wall, off |-> o]

\* the dict appended to all_events for one item
Normalize(ev, cal_id, o) ==
    [summary     |-> IF ev.summary = <<>> THEN <<"(No", " ", "title)">> ELSE ev.summary,
     start       |-> ParseStart(ev.start, o),
     calendar_id |-> cal_id,
     is_all_day  |-> ev.start.kind # "dateTime"]

RECURSIVE NormalizeItems(_, _, _)
NormalizeItems(items, cal_id, o) ==
    IF items = <<>> THEN <<>>
    ELSE LET ev == Head(items)
             rest == NormalizeItems(Tail(items), cal_id, o)
         IN  IF ev.status = "cancelled" THEN rest
             ELSE <<Normalize(ev, cal_id, o)>> \o rest

\* list.sort(key=lambda e: e["start"]): stable, ascending by instant
RECURSIVE InsertByStart(_, _)
InsertByStart(e, sorted) ==
    IF sorted = <<>> THEN <<e>>
    ELSE IF Instant(Head(sorted).start) <= Instant(e.start)
         THEN <<Head(sorted)>> \o InsertByStart(e, Tail(sorted))
         ELSE <<e>> \o sorted

RECURSIVE SortByStart(_)
SortByStart(evs) ==
    IF evs = <<>> THEN <<>>
    ELSE InsertByStart(evs[Len(evs)], SortByStart(SubSeq(evs, 1, Len(evs) - 1)))

\* key = (e["start"], e["summary"]); datetimes are equal when their instants are
DedupKey(e) == <<Instant(e.start), e.summary>>

\* A merge that keeps every event (no deduplication).
DeduplicateKeepsAll(evs, seen) == evs

RECURSIVE Deduplicate(_, _)
Deduplicate(evs, seen) ==
    IF evs = <<>> THEN <<>>
    ELSE IF DedupKey(Head(evs)) \in seen
         THEN Deduplicate(Tail(evs), seen)
         ELSE <<Head(evs)>> \o Deduplicate(Tail(evs), seen \cup {DedupKey(Head(evs))})

\* orderBy="startTime": the API returns the items of one calendar in start order
RawOrdered(items) ==
    \A i \in 1..(Len(items) - 1) :
        Instant(ParseStart(items[i].start, tz)) <= Instant(ParseStart(items[i + 1].start, tz))

RawLists(w, o) ==
    {items \in UNION {[1..n -> RawItems(w, o)] : n \in 0..MaxItems} : RawOrdered(items)}

\* svc = service or get_calendar_service(); start_dt, end_dt = _next_week_range(tz)
CalBegin ==
    /\ cal_pc = "idle"
    /\ window' = _next_week_range(NowIn(tz))
    /\ cal_pc' = "loop"
    /\ UNCHANGED <<clockVars, outsideCal, calendar_ids, cal_i, all_events, fetched,
                   events_out, cal_error, failed>>

\* One iteration of "for cal_id in calendar_ids" whose list() call succeeds.
FetchOk ==
    /\ cal_pc = "loop"
    /\ cal_i < Len(calendar_ids)
    /\ LET cal_id == calendar_ids[cal_i + 1] IN
       \E items \in RawLists(window, tz) :
          /\ all_events' = all_events \o NormalizeItems(items, cal_id, tz)
          /\ fetched' = Append(fetched, cal_id)
          /\ cal_i' = cal_i + 1
    /\ UNCHANGED <<clockVars, outsideCal, calendar_ids, cal_pc, window, events_out,
                   cal_error, failed>>

\* A failing source that is skipped instead of ending the call.
FetchFailsAndContinues(cal_id, cause) ==
    /\ cal_i' = cal_i + 1
    /\ UNCHANGED <<cal_pc, all_events, events_out, cal_error>>

\* except Exception as e: raise RuntimeError(f"Failed to fetch events from
\* calendar {cal_id}: {e}") from e
FetchRaises(cal_id, cause) ==
    /\ cal_error' = [cal_id |-> cal_id, cause |-> cause]
    /\ cal_pc' = "raised"
    /\ UNCHANGED <<cal_i, all_events, events_out>>

\* One iteration whose list() call raises.
FetchFail ==
    /\ cal_pc = "loop"
    /\ cal_i < Len(calendar_ids)
    /\ \E cause \in {"HttpError", "TimeoutError"} :
          /\ fetched' = Append(fetched, calendar_ids[cal_i + 1])
          /\ failed' = [cal_id |-> calendar_ids[cal_i + 1], cause |-> cause]
          /\ FetchRaises(calendar_ids[cal_i + 1], cause)
    /\ UNCHANGED <<clockVars, outsideCal, calendar_ids, window>>

\* After the loop: sort, deduplicate, return.
MergeAndReturn ==
    /\ cal_pc = "loop"
    /\ cal_i = Len(calendar_ids)
    /\ events_out' = Deduplicate(SortByStart(all_events), {})
    /\ cal_pc' = "returned"
    /\ UNCHANGED <<clockVars, outsideCal, calendar_ids, cal_i, window, all_events,
                   fetched, cal_error, failed>>

-----------------------------------------------------------------------------
(* Text *)

\* A text is a sequence of atoms.  The atom " " is one space, the atom "."
\* is one period; every other atom is a run of characters that holds neither
\* a space nor a period.  The module is ASCII: the Czech words are written
\* without their diacritics.

\* str.split(): the whitespace-separated words
RECURSIVE SplitWords(_, _)
SplitWords(text, cur) ==
    IF text = <<>> THEN (IF cur = <<>> THEN <<>> ELSE <<cur>>)
    ELSE IF Head(text) = " "
         THEN (IF cur = <<>> THEN <<>> ELSE <<cur>>) \o SplitWords(Tail(text), <<>>)
         ELSE SplitWords(Tail(text), Append(cur, Head(text)))

Words(text) == SplitWords(text, <<>>)

\* sep.join(parts)
RECURSIVE Join(_, _)
Join(sep, parts) ==
    IF parts = <<>> THEN <<>>
    ELSE IF Len(parts) = 1 THEN parts[1]
         ELSE parts[1] \o sep \o Join(sep, Tail(parts))

\* text.rfind(".") + 1: position of the last period, 0 when there is none
LastPeriod(text) ==
    LET at == {i \in 1..Len(text) : text[i] = "."}
    IN  IF at = {} THEN 0 ELSE CHOOSE i \in at : \A j \in at : j <= i

\* text.split(". ")
RECURSIVE SplitPeriodSpace(_, _)
SplitPeriodSpace(text, cur) ==
    IF text = <<>> THEN <<cur>>
    ELSE IF Len(text) >= 2 /\ text[1] = "." /\ text[2] = " "
         THEN <<cur>> \o SplitPeriodSpace(SubSeq(text, 3, Len(text)), <<>>)
         ELSE SplitPeriodSpace(Tail(text), Append(cur, Head(text)))

\* str.strip()
RECURSIVE StripLeft(_)
StripLeft(text) ==
    IF text # <<>> /\ Head(text) = " " THEN StripLeft(Tail(text)) ELSE text

RECURSIVE StripRight(_)
StripRight(text) ==
    IF text # <<>> /\ text[Len(text)] = " "
    THEN StripRight(SubSeq(text, 1, Len(text) - 1))
    ELSE text

Strip(text) == StripRight(StripLeft(text))

\* [s.strip() for s in text.split(". ") if s.strip()]
RECURSIVE StripAll(_)
StripAll(pieces) ==
    IF pieces = <<>> THEN <<>>
    ELSE IF Strip(Head(pieces)) = <<>> THEN StripAll(Tail(pieces))
         ELSE <<Strip(Head(pieces))>> \o StripAll(Tail(pieces))

Sentences(text) == StripAll(SplitPeriodSpace(text, <<>>))

\* len(s) of a text
RECURSIVE CharLen(_)
CharLen(text) == IF text = <<>> THEN 0 ELSE Len(Head(text)) + CharLen(Tail(text))

-----------------------------------------------------------------------------
(* summarizer: limits and trimming *)

\* summarizer.py sets MAX_WORDS = 450 and MAX_SENTENCES = 18.  The model keeps
\* the two limits but scales them down, so that texts of a few sentences
\* reach them.
ScaledMaxWords == 10
ScaledMaxSentences == 2

MAX_WORDS == ScaledMaxWords
MAX_SENTENCES == ScaledMaxSentences

\* words = text.split(); if len(words) > max_words: cut to max_words words
\* and back to the last period
TrimWords(text, max_words) ==
    LET words == Words(text)
    IN  IF Len(words) > max_words
        THEN LET cut == Join(<<" ">>, SubSeq(words, 1, max_words))
                 last_period == LastPeriod(cut) - 1
             IN  IF last_period > 0 THEN SubSeq(cut, 1, last_period + 1) ELSE cut
        ELSE text

\* A sentence trim that keeps one sentence too many.
TrimSentencesOffByOne(text) ==
    LET sentences == Sentences(text)
    IN  IF Len(sentences) > MAX_SENTENCES + 1
        THEN Join(<<".", " ">>, SubSeq(sentences, 1, MAX_SENTENCES + 1)) \o <<".">>
        ELSE text

\* sentences = [...]; if len(sentences) > MAX_SENTENCES: keep the first
\* MAX_SENTENCES and append a period
TrimSentences(text) ==
    LET sentences == Sentences(text)
    IN  IF Len(sentences) > MAX_SENTENCES
        THEN LET kept == SubSeq(sentences, 1, MAX_SENTENCES)
             IN  Join(<<".", " ">>, kept) \o (IF kept # <<>> THEN <<".">> ELSE <<>>)
        ELSE text

\* "Trim to max words and sentences": the same lines end _generate_summary_gemini,
\* _generate_summary_fallback_czech and generate_summary
TrimToLimits(text, max_words) == TrimSentences(TrimWords(text, max_words))

-----------------------------------------------------------------------------
(* summarizer: sentences *)

DAY_NAMES_EN == <<"Monday", "Tuesday", "Wednesday", "Thursday",
                  "Friday", "Saturday", "Sunday">>
DAY_NAMES_CS == <<"Pondeli", "Utery", "Streda", "Ctvrtek",
                  "Patek", "Sobota", "Nedele">>

NO_EVENTS_CS == <<"Tento", " ", "tyden", " ", "nemate", " ", "naplanovane", " ",
                  "zadne", " ", "udalosti", ".">>
NO_EVENTS_EN == <<"You", " ", "have", " ", "no", " ", "events", " ", "scheduled", " ",
                  "for", " ", "the", " ", "coming", " ", "week", ".">>

\* f"{n:02d}"
TwoDigits(n) == IF n < 10 THEN "0" \o ToString(n) ELSE ToString(n)

\* A time phrase that keeps the hour of the 24-hour clock.
FormatTimeKeeps24Hour(wall) ==
    LET hour == HourOf(wall)
        minute == MinuteOf(wall)
        suffix == IF hour < 12 THEN "am" ELSE "pm"
    IN  IF minute = 0 THEN ToString(hour) \o suffix
        ELSE ToString(hour) \o ":" \o TwoDigits(minute) \o suffix

\* _format_time_simple: 9am, 2:30pm
_format_time_simple(wall) ==
    LET hour == HourOf(wall)
        minute == MinuteOf(wall)
        suffix == IF hour < 12 THEN "am" ELSE "pm"
        hour_12 == IF hour = 0 THEN 12
                   ELSE IF hour < 12 THEN hour
                   ELSE IF hour = 12 THEN 12
                   ELSE hour - 12
    IN  IF minute = 0 THEN ToString(hour_12) \o suffix
        ELSE ToString(hour_12) \o ":" \o TwoDigits(minute) \o suffix

\* group_events_by_day(events)[day]: the events of one weekday, in input order
EventsOfDay(events, weekday) ==
    SelectSeq(events, LAMBDA ev : Weekday(ev.start.wall) = weekday)

\* f"{day} {time_str}: {ev.get('summary', '(No title)')}."
EnglishSentence(day, ev) ==
    LET time_str == IF ev.is_all_day THEN <<"all", " ", "day">>
                    ELSE <<_format_time_simple(ev.start.wall)>>
    IN  <<day, " ">> \o time_str \o <<":", " ">> \o ev.summary \o <<".">>

\* The keywords of _event_to_sentence that lie inside one lower-cased atom
\* (for the atoms the model's titles are made of).
KeywordsOf(atom) ==
    CASE atom = "Narozeniny" -> {"narozeniny"}
      [] atom = "narozky"    -> {"narozky"}
      [] atom = "MUDr"       -> {"mudr"}
      [] atom = "doktor"     -> {"doktor"}
      [] atom = "quiz"       -> {"quiz"}
      [] atom = "Ples"       -> {"ples"}
      [] atom = "ples"       -> {"ples"}
      [] atom = "Kino"       -> {"kino"}
      [] OTHER               -> {}

\* any(k in tl for k in keywords); "dr." is an atom ending in "dr" and a period
HasKeyword(title, keywords) ==
    \/ \E i \in 1..Len(title) : KeywordsOf(title[i]) \cap keywords # {}
    \/ /\ "dr." \in keywords
       /\ \E i \in 1..(Len(title) - 1) :
             title[i] \in {"Dr", "dr", "MUDr"} /\ title[i + 1] = "."

\* title.replace("Ples ", "").replace("ples ", "")
RECURSIVE RemoveWord(_, _)
RemoveWord(title, word) ==
    IF title = <<>> THEN <<>>
    ELSE IF Len(title) >= 2 /\ title[1] = word /\ title[2] = " "
         THEN RemoveWord(SubSeq(title, 3, Len(title)), word)
         ELSE <<Head(title)>> \o RemoveWord(Tail(title), word)

DayPrep(day) ==
    CASE day = "Pondeli" -> <<"V", " ", "pondeli">>
      [] day = "Utery"   -> <<"V", " ", "utery">>
      [] day = "Streda"  -> <<"Ve", " ", "stredu">>
      [] day = "Ctvrtek" -> <<"Ve", " ", "ctvrtek">>
      [] day = "Patek"   -> <<"V", " ", "patek">>
      [] day = "Sobota"  -> <<"V", " ", "sobotu">>
      [] day = "Nedele"  -> <<"V", " ", "nedeli">>

\* _event_to_sentence
_event_to_sentence(day, ev) ==
    LET stripped == Strip(ev.summary)
        title == IF stripped = <<>> THEN <<"(bez", " ", "nazvu)">> ELSE stripped
        h == HourOf(ev.start.wall)
        m == MinuteOf(ev.start.wall)
        prep == IF h \in {18, 19, 20} THEN "ve" ELSE "v"
        time_phrase ==
            IF ev.is_all_day THEN <<"cely", " ", "den">>
            ELSE IF m # 0 THEN <<prep, " ", ToString(h) \o ":" \o TwoDigits(m)>>
            ELSE <<prep, " ", ToString(h), " ", "hodin">>
        rest == Strip(RemoveWord(RemoveWord(title, "Ples"), "ples"))
        phrase ==
            IF HasKeyword(title, {"narozky", "narozeniny"})
            THEN (IF CharLen(title) < 30 THEN <<"slavite", " ">> \o title
                  ELSE <<"mate", " ", "narozeninovou", " ", "oslavu">>)
            ELSE IF HasKeyword(title, {"mudr", "lekar", "doktor", "dr."})
            THEN <<"mate", " ", "navstevu", " ", "u", " ", "lekare", " ">> \o title
            ELSE IF HasKeyword(title, {"kviz", "quiz"})
            THEN <<"jdete", " ", "na", " ">> \o title
            ELSE IF HasKeyword(title, {"ples"})
            THEN (IF rest # <<>> THEN <<"jdete", " ", "na", " ", "ples", " ">> \o rest
                  ELSE <<"jdete", " ", "na", " ", "ples">>)
            ELSE IF HasKeyword(title, {"kino"})
            THEN <<"jdete", " ", "do", " ", "kina">>
            ELSE <<"mate", " ">> \o title
    IN  IF ev.is_all_day
        THEN DayPrep(day) \o <<" ">> \o time_phrase \o <<" ">> \o phrase \o <<".">>
        ELSE DayPrep(day) \o <<" ", "v", " ">> \o time_phrase \o <<" ">> \o phrase \o <<".">>

\* for ev in by_day[day]: parts.append(sentence(day, ev))
RECURSIVE SentencesOf(_, _, _)
SentencesOf(evs, day, czech) ==
    IF evs = <<>> THEN <<>>
    ELSE <<IF czech THEN _event_to_sentence(day, Head(evs))
           ELSE EnglishSentence(day, Head(evs))>>
         \o SentencesOf(Tail(evs), day, czech)

\* for day in day_names: ... ; the list parts, from weekday on
RECURSIVE Parts(_, _, _)
Parts(events, weekday, czech) ==
    IF weekday > 6 THEN <<>>
    ELSE SentencesOf(EventsOfDay(events, weekday),
                     IF czech THEN DAY_NAMES_CS[weekday + 1] ELSE DAY_NAMES_EN[weekday + 1],
                     czech)
         \o Parts(events, weekday + 1, czech)

\* _generate_summary_fallback_czech
_generate_summary_fallback_czech(events) ==
    IF events = <<>> THEN NO_EVENTS_CS
    ELSE TrimToLimits(Join(<<" ">>, Parts(events, 0, TRUE)), MAX_WORDS)

\* the "English fallback" lines of generate_summary
EnglishSummary(events, max_words) ==
    TrimToLimits(Join(<<" ">>, Parts(events, 0, FALSE)), max_words)

-----------------------------------------------------------------------------
(* summarizer: generate_summary *)

\* What the generation capability does when _generate_summary_gemini runs:
\* the import fails, a call raises, or response.text is some text.
NotCalled == [kind |-> "not_called"]

GenChunks == { <<"veta", ".", " ">>, <<".", " ">>,
               <<"a", " ", "b", " ", "c", " ", "d", " ">> }

RECURSIVE GenTextsOf(_)
GenTextsOf(n) ==
    IF n = 0 THEN {<<>>}
    ELSE LET shorter == GenTextsOf(n - 1)
         IN  shorter \cup {t \o c : t \in shorter, c \in GenChunks}

GenaiOutcomes ==
    {[kind |-> "import_error"], [kind |-> "raises"]}
    \cup {[kind |-> "text", text |-> t] : t \in GenTextsOf(MaxGenChunks)}

Returned(text, called) == [raised |-> FALSE, text |-> text, called |-> called]
Raised(called) == [raised |-> TRUE, text |-> <<>>, called |-> called]

\* _generate_summary_gemini
_generate_summary_gemini(events, outcome) ==
    IF outcome.kind = "import_error"
    THEN Returned(_generate_summary_fallback_czech(events), TRUE)
    ELSE IF outcome.kind = "raises" THEN Raised(TRUE)
    ELSE IF events = <<>> THEN Returned(NO_EVENTS_CS, TRUE)
    ELSE LET text == Strip(outcome.text)
         IN  IF text = <<>>
             THEN Returned(_generate_summary_fallback_czech(events), TRUE)
             ELSE Returned(TrimToLimits(text, MAX_WORDS), TRUE)

\* generate_summary without the try/except around the generative call.
generate_summary_propagates(events, max_words, gemini_api_key, language, outcome) ==
    IF events = <<>> /\ language = "cs" THEN Returned(NO_EVENTS_CS, FALSE)
    ELSE IF events = <<>> THEN Returned(NO_EVENTS_EN, FALSE)
    ELSE IF language = "cs" /\ gemini_api_key # ""
    THEN _generate_summary_gemini(events, outcome)
    ELSE IF language = "cs"
    THEN Returned(_generate_summary_fallback_czech(events), FALSE)
    ELSE Returned(EnglishSummary(events, max_words), FALSE)

\* generate_summary
generate_summary(events, max_words, gemini_api_key, language, outcome) ==
    IF events = <<>> /\ language = "cs" THEN Returned(NO_EVENTS_CS, FALSE)
    ELSE IF events = <<>> THEN Returned(NO_EVENTS_EN, FALSE)
    ELSE IF language = "cs" /\ gemini_api_key # ""
    THEN LET r == _generate_summary_gemini(events, outcome)
         IN  IF r.raised
             THEN Returned(_generate_summary_fallback_czech(events), TRUE)
             ELSE r
    ELSE IF language = "cs"
    THEN Returned(_generate_summary_fallback_czech(events), FALSE)
    ELSE Returned(EnglishSummary(events, max_words), FALSE)

\* One call generate_summary(events, max_words, gemini_api_key, language).
GenerateSummary(events, max_words, gemini_api_key, language) ==
    /\ sum_pc = "idle"
    /\ LET enters == generate_summary(events, max_words, gemini_api_key, language,
                                      [kind |-> "import_error"]).called
       IN  \E outcome \in IF enters THEN GenaiOutcomes ELSE {NotCalled} :
              LET r == generate_summary(events, max_words, gemini_api_key, language, outcome)
              IN  /\ genai' = outcome
                  /\ summary' = r.text
                  /\ sum_pc' = IF r.raised THEN "raised" ELSE "returned"
    /\ sum_args' = [events |-> events, max_words |-> max_words,
                    gemini_api_key |-> gemini_api_key, language |-> language]

\* The events generate_summary is given: what get_next_week_events returns for
\* a week that starts on day 7, ordered by start, no (start, summary) twice.
\* An event that overlaps the start of the week begins on the Sunday before
\* it (weekday -1).
Event(title, weekday, hour, minute, all_day) ==
    [summary     |-> title,
     start       |-> [wall |-> (7 + weekday) * DAY + hour * HOUR + minute * 60, off |-> 0],
     calendar_id |-> "primary",
     is_all_day  |-> all_day]

EventPool ==
    { Event(<<"Vylet">>, -1, 22, 0, FALSE),
      Event(<<"Standup">>, 0, 9, 0, FALSE),
      Event(<<"Team", " ", "sync", " ", "call">>, 0, 14, 30, FALSE),
      Event(<<"(No", " ", "title)">>, 1, 0, 0, TRUE),
      Event(<<"Dr", ".", " ", "Novak">>, 1, 14, 0, FALSE),
      Event(<<"Kino">>, 2, 19, 0, FALSE),
      Event(<<"Ples", " ", "Honzik">>, 4, 0, 15, FALSE),
      Event(<<"Narozeniny">>, 6, 12, 0, FALSE) }

EventLists ==
    {evs \in UNION {[1..n -> EventPool] : n \in 0..MaxEvents} :
        /\ \A i \in 1..(Len(evs) - 1) :
              Instant(evs[i].start) <= Instant(evs[i + 1].start)
        /\ \A i, j \in 1..Len(evs) : i # j => DedupKey(evs[i]) # DedupKey(evs[j])}

NoArgs == [events |-> <<>>, max_words |-> 0, gemini_api_key |-> "", language |-> ""]

SumIdle ==
    /\ sum_args = NoArgs
    /\ genai = NotCalled
    /\ summary = <<>>
    /\ sum_pc = "idle"

SumCall ==
    /\ GenerateSummary(sum_args.events, sum_args.max_words,
                       sum_args.gemini_api_key, sum_args.language)
    /\ UNCHANGED <<clockVars, outsideSum>>

-----------------------------------------------------------------------------
(* rss: strings *)

\* A string of the feed is a sequence of characters: the digits, "-", and
\* atoms such as "weekly" that stand for a run of letters.

DigitChars == <<"0", "1", "2", "3", "4", "5", "6", "7", "8", "9">>

IsDigit(c) == c \in {"0", "1", "2", "3", "4", "5", "6", "7", "8", "9"}

DigitValue(c) ==
    CASE c = "0" -> 0 [] c = "1" -> 1 [] c = "2" -> 2 [] c = "3" -> 3 [] c = "4" -> 4
      [] c = "5" -> 5 [] c = "6" -> 6 [] c = "7" -> 7 [] c = "8" -> 8 [] c = "9" -> 9

\* str(n) of a non-negative integer
RECURSIVE IntToStr(_)
IntToStr(n) ==
    IF n < 10 THEN <<DigitChars[n + 1]>>
    ELSE IntToStr(n \div 10) \o <<DigitChars[(n % 10) + 1]>>

\* int(s) accepts s
IsNumeric(s) == s # <<>> /\ \A i \in 1..Len(s) : IsDigit(s[i])

\* int(s)
RECURSIVE StrToInt(_)
StrToInt(s) ==
    IF s = <<>> THEN 0
    ELSE 10 * StrToInt(SubSeq(s, 1, Len(s) - 1)) + DigitValue(s[Len(s)])

\* code point order of the characters: "-" is below the digits, letters above
CharOrd(c) == IF c = "-" THEN 0 ELSE IF IsDigit(c) THEN 1 + DigitValue(c) ELSE 11

\* a < b for Python strings
RECURSIVE StrLess(_, _)
StrLess(a, b) ==
    IF b = <<>> THEN FALSE
    ELSE IF a = <<>> THEN TRUE
    ELSE IF Head(a) = Head(b) THEN StrLess(Tail(a), Tail(b))
    ELSE CharOrd(Head(a)) < CharOrd(Head(b))

\* s.split("-")
RECURSIVE SplitDash(_, _)
SplitDash(s, cur) ==
    IF s = <<>> THEN <<cur>>
    ELSE IF Head(s) = "-" THEN <<cur>> \o SplitDash(Tail(s), <<>>)
    ELSE SplitDash(Tail(s), Append(cur, Head(s)))

\* strftime("%Y-%m-%d") of the day with this number: day 0 is Monday
\* 2024-12-30, day 2 is 2025-01-01; days 0..32 are covered
DateStr(day) ==
    IF day <= 1
    THEN <<"2", "0", "2", "4", "-", "1", "2", "-">> \o IntToStr(30 + day)
    ELSE <<"2", "0", "2", "5", "-", "0", "1", "-">>
         \o (IF day - 1 < 10 THEN <<"0">> ELSE <<>>) \o IntToStr(day - 1)

\* datetime.strptime(date_str, "%Y-%m-%d") accepts date_str
ValidDate(date_str) ==
    LET parts == SplitDash(date_str, <<>>)
    IN  /\ Len(parts) = 3
        /\ Len(parts[1]) = 4 /\ IsNumeric(parts[1])
        /\ Len(parts[2]) \in {1, 2} /\ IsNumeric(parts[2])
        /\ StrToInt(parts[2]) \in 1..12
        /\ Len(parts[3]) \in {1, 2} /\ IsNumeric(parts[3])
        /\ StrToInt(parts[3]) \in 1..31

-----------------------------------------------------------------------------
(* rss: generate_rss_feed and append_episode_to_feed *)

BASE_URL == <<"https://example.com/brief">>

\* f"weekly-brief-{date_str}.mp3"
Mp3Filename(date_str) == <<"weekly", "-", "brief", "-">> \o date_str \o <<".mp3">>

\* An item of the document: the text of its guid (<<>> when the element is
\* missing or empty), whether it has an enclosure, and the enclosure's url
\* and length attributes (has_length says whether the length is there).

\* the item generate_rss_feed writes for one episode: guid and enclosure
ItemOf(ep) ==
    [guid       |-> <<"weekly", "-", "brief", "-">> \o ep.date_str,
     enclosure  |-> TRUE,
     url        |-> BASE_URL \o <<"/">> \o ep.mp3_filename,
     has_length |-> TRUE,
     length     |-> IntToStr(ep.size_bytes)]

RECURSIVE ItemsOf(_)
ItemsOf(episodes) ==
    IF episodes = <<>> THEN <<>>
    ELSE <<ItemOf(Head(episodes))>> \o ItemsOf(Tail(episodes))

\* _date_to_rfc2822 raises on no episode of the list
AllDatesValid(episodes) == \A i \in 1..Len(episodes) : ValidDate(episodes[i].date_str)

\* size = int(enc.get("length", 0)) if enc is not None else 0
SizeOf(item) ==
    IF item.enclosure /\ item.has_length THEN StrToInt(item.length) ELSE 0

\* An episode read from an item with the month taken for the year.
EpisodeOfShifted(item) ==
    LET parts == SplitDash(item.guid, <<>>)
        n == Len(parts)
        ep_date == parts[n - 3] \o <<"-">> \o parts[n - 2] \o <<"-">> \o parts[n - 1]
    IN  [date_str |-> ep_date, mp3_filename |-> Mp3Filename(ep_date),
         size_bytes |-> SizeOf(item)]

\* the dict append_episode_to_feed builds from one item
EpisodeOf(item) ==
    LET parts == SplitDash(item.guid, <<>>)
        n == Len(parts)
        ep_date == parts[n - 2] \o <<"-">> \o parts[n - 1] \o <<"-">> \o parts[n]
    IN  [date_str |-> ep_date, mp3_filename |-> Mp3Filename(ep_date),
         size_bytes |-> SizeOf(item)]

\* if guid is not None and guid.text: ... if len(parts) >= 4:
HasDatedGuid(item) == item.guid # <<>> /\ Len(SplitDash(item.guid, <<>>)) >= 4

\* A read that stops after the first item of the document.
ReadItemsFirstOnly(items) ==
    IF items # <<>> /\ HasDatedGuid(Head(items)) THEN <<EpisodeOf(Head(items))>> ELSE <<>>

\* the loop over channel.findall("item")
RECURSIVE ReadItems(_)
ReadItems(items) ==
    IF items = <<>> THEN <<>>
    ELSE IF HasDatedGuid(Head(items))
         THEN <<EpisodeOf(Head(items))>> \o ReadItems(Tail(items))
         ELSE ReadItems(Tail(items))

\* int(enc.get("length", 0)) raises ValueError on an item the loop reads
\* (of the strings int() takes, the model has the digit strings)
ReadRaises(doc) ==
    /\ doc.exists
    /\ \E i \in 1..Len(doc.items) :
          /\ HasDatedGuid(doc.items[i])
          /\ doc.items[i].enclosure /\ doc.items[i].has_length
          /\ ~IsNumeric(doc.items[i].length)

\* if feed_path.exists(): ... episodes
ReadEpisodes(doc) == IF doc.exists THEN ReadItems(doc.items) ELSE <<>>

\* An upsert that appends whatever the feed holds.
UpsertAlwaysAppends(episodes, new_ep) == Append(episodes, new_ep)

\* An upsert that replaces the entry of the same date (last wins).
RECURSIVE UpsertReplaces(_, _)
UpsertReplaces(episodes, new_ep) ==
    IF episodes = <<>> THEN <<new_ep>>
    ELSE IF Head(episodes).date_str = new_ep.date_str
         THEN <<new_ep>> \o Tail(episodes)
         ELSE <<Head(episodes)>> \o UpsertReplaces(Tail(episodes), new_ep)

\* if not any(e["date_str"] == date_str for e in episodes): episodes.append(new_ep)
Upsert(episodes, new_ep) ==
    IF \E i \in 1..Len(episodes) : episodes[i].date_str = new_ep.date_str
    THEN episodes
    ELSE Append(episodes, new_ep)

\* episodes.sort(key=lambda e: e["date_str"], reverse=True): stable
RECURSIVE InsertByDateDesc(_, _)
InsertByDateDesc(e, sorted) ==
    IF sorted = <<>> THEN <<e>>
    ELSE IF ~StrLess(Head(sorted).date_str, e.date_str)
         THEN <<Head(sorted)>> \o InsertByDateDesc(e, Tail(sorted))
         ELSE <<e>> \o sorted

\* A write that keeps the episodes in the order of insertion (no sort).
SortKeepsInsertionOrder(episodes) == episodes

RECURSIVE SortByDateDesc(_)
SortByDateDesc(episodes) ==
    IF episodes = <<>> THEN <<>>
    ELSE InsertByDateDesc(episodes[Len(episodes)],
                          SortByDateDesc(SubSeq(episodes, 1, Len(episodes) - 1)))

NoFeed == [exists |-> FALSE, items |-> <<>>]
NoCall == [date_str |-> <<>>, size_bytes |-> 0, before |-> NoFeed, raised |-> FALSE]

\* One call append_episode_to_feed(date_str, mp3_path, feed_path, base_url);
\* mp3 is the audio file: [exists, size].
AppendEpisodeToFeed(date_str, mp3) ==
    LET size_bytes == IF mp3.exists THEN mp3.size ELSE 0
        new_ep == [date_str |-> date_str, mp3_filename |-> Mp3Filename(date_str),
                   size_bytes |-> size_bytes]
    IN  \E episodes \in {IF ReadRaises(feed) THEN <<>>
                          ELSE SortByDateDesc(Upsert(ReadEpisodes(feed), new_ep))} :
           \E ok \in {~ReadRaises(feed) /\ AllDatesValid(episodes)} :
              /\ last_call' = [date_str |-> date_str, size_bytes |-> size_bytes,
                               before |-> feed, raised |-> ~ok]
              /\ IF ok
                 THEN /\ feed' = [exists |-> TRUE, items |-> ItemsOf(episodes)]
                      /\ written' = episodes
                 ELSE UNCHANGED <<feed, written>>

FeedIdle ==
    /\ feed = NoFeed
    /\ written = <<>>
    /\ last_call = NoCall

\* the audio file a call may find: none, or one of two sizes
Mp3Files == {[exists |-> FALSE, size |-> 0],
             [exists |-> TRUE, size |-> 1000], [exists |-> TRUE, size |-> 2000]}

\* the week-start dates of the weeks 0..MaxWeeks
FeedDates == {DateStr(7 * k) : k \in 0..MaxWeeks}

FeedCall ==
    /\ \E date_str \in FeedDates, mp3 \in Mp3Files : AppendEpisodeToFeed(date_str, mp3)
    /\ UNCHANGED <<clockVars, outsideFeed>>

-----------------------------------------------------------------------------
(* run_brief: the pipeline *)

\* _next_monday_date_str: strftime("%Y-%m-%d") of now + days_until_monday
_next_monday_date_str(n) == DateStr((n.wall + DaysUntilMonday(n) * DAY) \div DAY)

PipeInstants == {6 * DAY + 8 * HOUR, 7 * DAY - 1, 7 * DAY}

NoFile == [date_str |-> <<>>, exists |-> FALSE, size |-> 0]

\* config.py: the settings read from the environment, and the --skip-rss flag
Configs == [LANGUAGE : {"cs", "en"}, GEMINI_API_KEY : {"", "key"},
            RSS_BASE_URL : {"", "https://example.com/brief"},
            skip_rss : BOOLEAN]

\* get_calendar_service() fails: the run ends before any stage
PipeNoService ==
    /\ pc = "start"
    /\ pc' = "failed"
    /\ UNCHANGED <<clockVars, weekVars, calVars, sumVars, feedVars,
                   cfg, run_date, summary_file, mp3_file, stages>>

\* --list-calendars: list_calendars(service), then return
PipeListCalendars ==
    /\ pc = "start"
    /\ pc' = "listed"
    /\ UNCHANGED <<clockVars, weekVars, calVars, sumVars, feedVars,
                   cfg, run_date, summary_file, mp3_file, stages>>

\* events = get_next_week_events(...): the call begins
PipeFetchBegin ==
    /\ pc = "start"
    /\ pc' = "fetch"
    /\ stages' = Append(stages, "fetch")
    /\ CalBegin
    /\ UNCHANGED <<cfg, run_date, summary_file, mp3_file>>

\* ... one calendar is fetched
PipeFetchOk ==
    /\ pc = "fetch"
    /\ FetchOk
    /\ UNCHANGED pipeVars

\* ... the fetch of one calendar raises: the RuntimeError ends the run
PipeFetchFail ==
    /\ pc = "fetch"
    /\ FetchFail
    /\ pc' = "failed"
    /\ UNCHANGED <<cfg, run_date, summary_file, mp3_file, stages>>

\* ... the events are merged and returned
PipeMerge ==
    /\ pc = "fetch"
    /\ MergeAndReturn
    /\ pc' = "date"
    /\ stages' = Append(stages, "merge")
    /\ UNCHANGED <<cfg, run_date, summary_file, mp3_file>>

\* date_str = _next_monday_date_str(config.TIMEZONE)
PipeDate ==
    /\ pc = "date"
    /\ run_date' = _next_monday_date_str(NowIn(tz))
    /\ pc' = "summary"
    /\ UNCHANGED <<clockVars, weekVars, calVars, sumVars, feedVars,
                   cfg, summary_file, mp3_file, stages>>

\* summary = generate_summary(events): max_words, gemini_api_key and language
\* are left at their defaults MAX_WORDS, "" and "cs"
PipeSummary ==
    /\ pc = "summary"
    /\ GenerateSummary(events_out, MAX_WORDS, "", "cs")
    /\ pc' = "save"
    /\ stages' = Append(stages, "compose")
    /\ UNCHANGED <<clockVars, weekVars, calVars, feedVars,
                   cfg, run_date, summary_file, mp3_file>>

\* summary_path = save_summary(summary, config.OUTPUT_DIR, date_str)
PipeSave ==
    /\ pc = "save"
    /\ \/ /\ summary_file' = [date_str |-> run_date, exists |-> TRUE, size |-> Len(summary)]
          /\ pc' = "tts"
          /\ stages' = Append(stages, "persist")
       \/ /\ pc' = "failed"
          /\ UNCHANGED <<summary_file, stages>>
    /\ UNCHANGED <<clockVars, weekVars, calVars, sumVars, feedVars,
                   cfg, run_date, mp3_file>>

\* synthesize_to_file(summary, mp3_path)
PipeSynthesize ==
    /\ pc = "tts"
    /\ \/ /\ \E size \in {1000, 2000} :
                mp3_file' = [date_str |-> run_date, exists |-> TRUE, size |-> size]
          /\ pc' = "rss"
          /\ stages' = Append(stages, "synthesize")
       \/ /\ pc' = "failed"
          /\ UNCHANGED <<mp3_file, stages>>
    /\ UNCHANGED <<clockVars, weekVars, calVars, sumVars, feedVars,
                   cfg, run_date, summary_file>>

\* A feed stage that runs whatever the --skip-rss flag says.
PipeFeedIgnoresSkipFlag ==
    /\ pc = "rss"
    /\ cfg.RSS_BASE_URL # ""
    /\ AppendEpisodeToFeed(run_date, mp3_file)
    /\ pc' = IF last_call'.raised THEN "failed" ELSE "done"
    /\ stages' = Append(stages, "feed")
    /\ UNCHANGED <<clockVars, weekVars, calVars, sumVars,
                   cfg, run_date, summary_file, mp3_file>>

\* if config.RSS_BASE_URL and not skip_rss: append_episode_to_feed(...)
PipeFeed ==
    /\ pc = "rss"
    /\ cfg.RSS_BASE_URL # "" /\ ~cfg.skip_rss
    /\ AppendEpisodeToFeed(run_date, mp3_file)
    /\ pc' = IF last_call'.raised THEN "failed" ELSE "done"
    /\ stages' = Append(stages, "feed")
    /\ UNCHANGED <<clockVars, weekVars, calVars, sumVars,
                   cfg, run_date, summary_file, mp3_file>>

\* else: the run ends without the feed stage
PipeNoFeed ==
    /\ pc = "rss"
    /\ ~(cfg.RSS_BASE_URL # "" /\ ~cfg.skip_rss)
    /\ pc' = "done"
    /\ UNCHANGED <<clockVars, weekVars, calVars, sumVars, feedVars,
                   cfg, run_date, summary_file, mp3_file, stages>>

\* The clock advances while a run is under way.
PipeTick ==
    /\ pc \in {"start", "fetch", "date", "summary", "save", "tts", "rss"}
    /\ \E t \in PipeInstants : t > now /\ now' = t
    /\ UNCHANGED <<tz, weekVars, calVars, sumVars, feedVars, pipeVars>>

PipeIdle ==
    /\ pc = "off"
    /\ cfg = [LANGUAGE |-> "cs", GEMINI_API_KEY |-> "", RSS_BASE_URL |-> "",
              skip_rss |-> FALSE]
    /\ run_date = <<>>
    /\ summary_file = NoFile
    /\ mp3_file = NoFile
    /\ stages = <<>>

-----------------------------------------------------------------------------
(* Specifications *)

CalIdle ==
    /\ cal_pc = "idle"
    /\ cal_i = 0
    /\ window = NoWindow
    /\ all_events = <<>>
    /\ fetched = <<>>
    /\ events_out = <<>>
    /\ cal_error = NoError
    /\ failed = NoError

\* The week-boundary computation under a running clock.
InitWeek ==
    /\ now \in Instants
    /\ tz \in TzOffsets
    /\ week = NoWeek
    /\ calendar_ids = <<"primary">>
    /\ CalIdle
    /\ SumIdle
    /\ FeedIdle
    /\ PipeIdle

NextWeek == NextWeekRange \/ Tick

SpecWeek == InitWeek /\ [][NextWeek]_vars

\* One call of get_next_week_events.
CalInstants == {6 * DAY + 8 * HOUR, 7 * DAY}

InitCal ==
    /\ now \in CalInstants
    /\ tz \in TzOffsets
    /\ week = NoWeek
    /\ calendar_ids \in CalendarIdLists
    /\ CalIdle
    /\ SumIdle
    /\ FeedIdle
    /\ PipeIdle

CalCallBegin == CalBegin /\ UNCHANGED pipeVars
CalFetchOk   == FetchOk /\ UNCHANGED pipeVars
CalFetchFail == FetchFail /\ UNCHANGED pipeVars
CalMerge     == MergeAndReturn /\ UNCHANGED pipeVars

NextCal == CalCallBegin \/ CalFetchOk \/ CalFetchFail \/ CalMerge

SpecCal == InitCal /\ [][NextCal]_vars

\* One call of generate_summary, in every mode.
InitSum ==
    /\ now = 6 * DAY + 8 * HOUR
    /\ tz = 0
    /\ week = NoWeek
    /\ calendar_ids = <<"primary">>
    /\ CalIdle
    /\ sum_args \in [events : EventLists, max_words : {MAX_WORDS, SmallMaxWords},
                     gemini_api_key : {"", "key"}, language : {"cs", "en"}]
    /\ genai = NotCalled
    /\ summary = <<>>
    /\ sum_pc = "idle"
    /\ FeedIdle
    /\ PipeIdle

NextSum == SumCall

SpecSum == InitSum /\ [][NextSum]_vars

\* Any sequence of append_episode_to_feed calls, starting without a feed.
InitFeed ==
    /\ now = 6 * DAY + 8 * HOUR
    /\ tz = 0
    /\ week = NoWeek
    /\ calendar_ids = <<"primary">>
    /\ CalIdle
    /\ SumIdle
    /\ FeedIdle
    /\ PipeIdle

NextFeed == FeedCall

SpecFeed == InitFeed /\ [][NextFeed]_vars

\* Any sequence of append_episode_to_feed calls on a document that was edited
\* outside the program: next to items as generate_rss_feed writes them it may
\* hold an item without guid, with a guid of two parts, with a guid of four
\* parts and more that names no date, without enclosure, with an enclosure
\* without length, or with a length that is no number.
EditedItemPool ==
    LET item(date_str, size) ==
            ItemOf([date_str |-> date_str, mp3_filename |-> Mp3Filename(date_str),
                    size_bytes |-> size])
    IN  { item(DateStr(7), 1000),
          item(DateStr(14), 2000),
          [item(DateStr(0), 1000) EXCEPT !.guid = <<>>],
          [item(DateStr(0), 1000) EXCEPT !.guid = <<"episode", "-", "1">>],
          [item(DateStr(0), 1000) EXCEPT
              !.guid = <<"my", "-", "weekly", "-", "brief", "-", "notes">>],
          [item(DateStr(0), 1000) EXCEPT !.enclosure = FALSE, !.url = <<>>,
                                         !.has_length = FALSE, !.length = <<>>],
          [item(DateStr(0), 1000) EXCEPT !.has_length = FALSE, !.length = <<>>],
          [item(DateStr(0), 1000) EXCEPT !.length = <<"abc">>] }

EditedFeeds ==
    {[exists |-> TRUE, items |-> items] :
        items \in UNION {[1..n -> EditedItemPool] : n \in 1..MaxEditedItems}}

InitFeedEdited ==
    /\ now = 6 * DAY + 8 * HOUR
    /\ tz = 0
    /\ week = NoWeek
    /\ calendar_ids = <<"primary">>
    /\ CalIdle
    /\ SumIdle
    /\ feed \in EditedFeeds
    /\ written = <<>>
    /\ last_call = NoCall
    /\ PipeIdle

SpecFeedEdited == InitFeedEdited /\ [][NextFeed]_vars

\* One run of the pipeline.  The feed is absent or holds the episode an
\* earlier run wrote for the week of day 7.
EarlierFeeds ==
    {NoFeed,
     [exists |-> TRUE,
      items |-> ItemsOf(<<[date_str |-> DateStr(7), mp3_filename |-> Mp3Filename(DateStr(7)),
                           size_bytes |-> 1000]>>)]}

Init ==
    /\ now \in PipeInstants
    /\ tz = 0
    /\ week = NoWeek
    /\ calendar_ids = <<"primary">>
    /\ CalIdle
    /\ SumIdle
    /\ feed \in EarlierFeeds
    /\ written = ReadEpisodes(feed)
    /\ last_call = NoCall
    /\ pc = "start"
    /\ cfg \in Configs
    /\ run_date = <<>>
    /\ summary_file = NoFile
    /\ mp3_file = NoFile
    /\ stages = <<>>

Next ==
    \/ PipeNoService
    \/ PipeListCalendars
    \/ PipeFetchBegin
    \/ PipeFetchOk
    \/ PipeFetchFail
    \/ PipeMerge
    \/ PipeDate
    \/ PipeSummary
    \/ PipeSave
    \/ PipeSynthesize
    \/ PipeFeed
    \/ PipeNoFeed
    \/ PipeTick

Spec == Init /\ [][Next]_vars

-----------------------------------------------------------------------------
(* C2 *)

\* C2: whenever _next_week_range has been called, its start is a Monday at
\* 00:00 local time strictly later than the instant read, on a Monday the
\* start is the Monday 7 days later, and the end is the start plus
\* 6 days 23:59:59.
C2_NextMondayStrictlyLater ==
    week.read >= 0 =>
        LET local == week.read + tz IN
        /\ Weekday(week.start.wall) = 0
        /\ week.start.wall % DAY = 0
        /\ week.start.off = tz
        /\ Instant(week.start) > week.read
        /\ Weekday(local) = 0 => week.start.wall = (local - (local % DAY)) + 7 * DAY
        /\ week.end.wall = week.start.wall + 6 * DAY + 23 * HOUR + 59 * 60 + 59
        /\ week.end.off = tz

\* the range was computed at exactly Monday 00:00 local time
C2_Witness ==
    /\ week.read >= 0
    /\ Weekday(week.read + tz) = 0
    /\ (week.read + tz) % DAY = 0
    /\ week.start.wall = week.read + tz + 7 * DAY

-----------------------------------------------------------------------------
(* C1 *)

\* C1: the sequence returned by get_next_week_events is sorted non-decreasing
\* by start, and no two of its events share the same (start, summary) pair.
C1_MergedSortedAndDeduplicated ==
    cal_pc = "returned" =>
        /\ \A i \in 1..(Len(events_out) - 1) :
              Instant(events_out[i].start) <= Instant(events_out[i + 1].start)
        /\ \A i, j \in 1..Len(events_out) :
              i # j => DedupKey(events_out[i]) # DedupKey(events_out[j])

\* two calendars returned the same (Tue 14:00, "Dentist") event, an earlier
\* event was fetched after it, and the result holds exactly one Dentist
C1_Witness ==
    /\ cal_pc = "returned"
    /\ \E i, j \in 1..Len(all_events) :
          /\ i < j
          /\ all_events[i].summary = <<"Dentist">>
          /\ DedupKey(all_events[i]) = DedupKey(all_events[j])
          /\ all_events[i].calendar_id # all_events[j].calendar_id
    /\ \E i, j \in 1..Len(all_events) :
          i < j /\ Instant(all_events[j].start) < Instant(all_events[i].start)
    /\ Cardinality({i \in 1..Len(events_out) : events_out[i].summary = <<"Dentist">>}) = 1

-----------------------------------------------------------------------------
(* C3 *)

DatesOf(episodes) == {episodes[i].date_str : i \in 1..Len(episodes)}

EntriesFor(doc, date_str) ==
    {i \in 1..Len(doc.items) :
        doc.items[i].guid = <<"weekly", "-", "brief", "-">> \o date_str}

\* C3: after any sequence of append_episode_to_feed calls from no feed, the
\* feed holds at most one entry per episode date, and exactly one for the
\* date of the last call.
C3_OneEntryPerDate ==
    /\ \A d \in FeedDates : Cardinality(EntriesFor(feed, d)) <= 1
    /\ Len(ReadEpisodes(feed)) = Len(feed.items)
    /\ (last_call # NoCall /\ ~last_call.raised) =>
          Cardinality(EntriesFor(feed, last_call.date_str)) = 1

\* the last call repeated a date the feed already held with the same size
C3_Witness ==
    /\ last_call # NoCall
    /\ \E i \in 1..Len(last_call.before.items) :
          /\ last_call.before.items[i].guid
                = <<"weekly", "-", "brief", "-">> \o last_call.date_str
          /\ last_call.before.items[i].length = IntToStr(last_call.size_bytes)
    /\ last_call.size_bytes = 1000
    /\ Cardinality(EntriesFor(feed, last_call.date_str)) = 1

-----------------------------------------------------------------------------
(* C4 *)

\* C4: a call with a date the feed already holds leaves the episodes as they
\* were: the entry keeps its size and filename, the new size is dropped.
C4_FirstWins ==
    (last_call # NoCall
        /\ last_call.date_str \in DatesOf(ReadEpisodes(last_call.before))) =>
        /\ ReadEpisodes(feed) = ReadEpisodes(last_call.before)
        /\ feed.items = last_call.before.items

\* 2025-01-06 was in the feed with size 1000, the call brought size 2000, and
\* the one entry of that date still says 1000
C4_Witness ==
    /\ last_call.date_str = DateStr(7)
    /\ last_call.size_bytes = 2000
    /\ \E i \in 1..Len(last_call.before.items) :
          /\ last_call.before.items[i].guid = <<"weekly", "-", "brief", "-">> \o DateStr(7)
          /\ last_call.before.items[i].length = <<"1", "0", "0", "0">>
    /\ \E i \in 1..Len(feed.items) :
          /\ EntriesFor(feed, DateStr(7)) = {i}
          /\ feed.items[i].length = <<"1", "0", "0", "0">>

-----------------------------------------------------------------------------
(* C5 *)

Triples(episodes) ==
    {<<episodes[i].date_str, episodes[i].mp3_filename, episodes[i].size_bytes>> :
        i \in 1..Len(episodes)}

\* C5: reading a document generate_rss_feed wrote gives back the set of
\* (date, filename, size) triples that was written.
C5_FeedRoundTrips ==
    feed.exists => Triples(ReadEpisodes(feed)) = Triples(written)

\* a document of three episodes, sizes 0, 1000 and 2000, written after the
\* previous one had been read back
C5_Witness ==
    /\ feed.exists
    /\ last_call.before.exists
    /\ Len(written) = 3
    /\ {written[i].size_bytes : i \in 1..Len(written)} = {0, 1000, 2000}
    /\ Triples(ReadEpisodes(feed)) = Triples(written)

-----------------------------------------------------------------------------
(* C6 *)

\* the maximum number of words the mode of a call applies: max_words in
\* English, MAX_WORDS in the two Czech modes
AppliedMaxWords == IF sum_args.language = "cs" THEN MAX_WORDS ELSE sum_args.max_words

EndsWithPeriod(text) == text # <<>> /\ text[Len(text)] = "."

\* C6: for a non-empty event sequence, in every mode, the text generate_summary
\* returns has at most the maximum number of space-delimited words and ends
\* with a period.
C6_WithinWordsAndEndsWithPeriod ==
    (sum_pc = "returned" /\ sum_args.events # <<>>) =>
        /\ Len(Words(summary)) <= AppliedMaxWords
        /\ EndsWithPeriod(summary)

-----------------------------------------------------------------------------
(* C7 *)

\* C7: in every mode the text generate_summary returns has at most
\* MAX_SENTENCES sentences, a sentence being a piece between ". " boundaries
\* that is not empty once stripped.
C7_AtMostMaxSentences ==
    sum_pc = "returned" => Len(Sentences(summary)) <= MAX_SENTENCES

\* an English summary of more events than MAX_SENTENCES, within the word
\* limit, was cut to MAX_SENTENCES sentences
C7_Witness ==
    /\ sum_pc = "returned"
    /\ sum_args.language = "en"
    /\ Len(sum_args.events) > MAX_SENTENCES
    /\ Len(Words(Join(<<" ">>, Parts(sum_args.events, 0, FALSE)))) <= sum_args.max_words
    /\ Len(Sentences(summary)) = MAX_SENTENCES
    /\ EndsWithPeriod(summary)

\* a generated text of more sentences than MAX_SENTENCES was cut as well
C7_WitnessGenerative ==
    /\ sum_pc = "returned"
    /\ genai.kind = "text"
    /\ Len(Sentences(Strip(genai.text))) > MAX_SENTENCES
    /\ Len(Sentences(summary)) = MAX_SENTENCES

-----------------------------------------------------------------------------
(* C8 *)

\* C8: when a pipeline run found no events, its narration is the fixed
\* "no events" sentence of the configured language (config.LANGUAGE), whatever
\* the key, and the generation capability was not called.
C8_EmptyWeekInConfiguredLanguage ==
    (pc \in {"save", "tts", "rss", "done"} /\ events_out = <<>>) =>
        /\ summary = IF cfg.LANGUAGE = "cs" THEN NO_EVENTS_CS ELSE NO_EVENTS_EN
        /\ genai = NotCalled

-----------------------------------------------------------------------------
(* C9 *)

GenerationFailed ==
    \/ genai.kind \in {"import_error", "raises"}
    \/ genai.kind = "text" /\ Strip(genai.text) = <<>>

\* C9: in generative mode, when the capability is missing, raises or returns
\* empty text, generate_summary returns (does not raise) the template-mode
\* narration of the same events.
C9_GenerationFailureFallsBack ==
    (sum_pc # "idle" /\ GenerationFailed) =>
        /\ sum_pc = "returned"
        /\ summary = generate_summary(sum_args.events, sum_args.max_words, "",
                                      sum_args.language, NotCalled).text

\* the capability raised on a non-empty week and the Czech template text
\* came back
C9_Witness ==
    /\ sum_pc = "returned"
    /\ genai.kind = "raises"
    /\ sum_args.gemini_api_key # ""
    /\ sum_args.events # <<>>
    /\ summary = _generate_summary_fallback_czech(sum_args.events)
    /\ summary # <<>>

-----------------------------------------------------------------------------
(* C10 *)

\* C10: if the fetch from one calendar failed, get_next_week_events returned
\* no events, raised an error naming that calendar, and fetched no calendar
\* after it.
C10_FetchFailureIsFatal ==
    failed # NoError =>
        /\ cal_pc = "raised"
        /\ events_out = <<>>
        /\ cal_error.cal_id = failed.cal_id
        /\ cal_error.cause = failed.cause
        /\ fetched = SubSeq(calendar_ids, 1, cal_i + 1)
        /\ fetched[Len(fetched)] = failed.cal_id

\* the first calendar was fetched with events, then the second one failed
C10_Witness ==
    /\ cal_pc = "raised"
    /\ failed.cal_id = "primary"
    /\ Len(all_events) > 0
    /\ Len(fetched) = 2
    /\ events_out = <<>>

\* the first of two calendars failed and the second was never fetched
C10_WitnessFirstFails ==
    /\ cal_pc = "raised"
    /\ Len(fetched) = 1
    /\ Len(calendar_ids) = 2

-----------------------------------------------------------------------------
(* C11 *)

\* the date an item of the document carries after "weekly-brief-"
ItemDate(item) == SubSeq(item.guid, 5, Len(item.guid))

\* a number that grows with the calendar date a "YYYY-MM-DD" string names
DateOrdinal(date_str) ==
    LET parts == SplitDash(date_str, <<>>)
    IN  StrToInt(parts[1]) * 372 + StrToInt(parts[2]) * 31 + StrToInt(parts[3])

\* C11: after every append_episode_to_feed call the items of the written
\* document are in strictly descending order of episode date (newest first),
\* in whatever order the episodes were inserted.
C11_NewestFirst ==
    \A i \in 1..(Len(feed.items) - 1) :
        DateOrdinal(ItemDate(feed.items[i])) > DateOrdinal(ItemDate(feed.items[i + 1]))

\* 2025-01-06 was inserted last, into a document that held 2025-01-13 and
\* 2024-12-30, and was written between the two
C11_Witness ==
    /\ last_call # NoCall /\ ~last_call.raised
    /\ last_call.date_str = DateStr(7)
    /\ Len(last_call.before.items) = 2
    /\ Len(feed.items) = 3
    /\ ItemDate(feed.items[1]) = DateStr(14)
    /\ ItemDate(feed.items[2]) = DateStr(7)
    /\ ItemDate(feed.items[3]) = DateStr(0)

-----------------------------------------------------------------------------
(* C12 *)

\* an entry that is neither malformed nor unparseable: a guid of four
\* dash-separated parts or more, and an enclosure whose length is a number
WellFormed(item) ==
    /\ HasDatedGuid(item)
    /\ item.enclosure /\ item.has_length /\ IsNumeric(item.length)

WellFormedItems(doc) == SelectSeq(doc.items, WellFormed)

\* the malformed entries the claim names: no guid or an empty one, a guid of
\* fewer than four parts, no enclosure, a length that is no number
NamedMalformed(item) ==
    \/ ~HasDatedGuid(item)
    \/ ~item.enclosure
    \/ item.has_length /\ ~IsNumeric(item.length)

\* a document of entries that are either well-formed with a date for guid or
\* malformed in one of the named ways
OfNamedEntries(doc) ==
    \A i \in 1..Len(doc.items) :
        \/ NamedMalformed(doc.items[i])
        \/ WellFormed(doc.items[i]) /\ ValidDate(EpisodeOf(doc.items[i]).date_str)

\* C12: a call on a document that holds malformed entries completes (does not
\* raise), and the document it writes holds the episodes of the well-formed
\* entries and the new episode (unless its date was there), and no other.
C12_MalformedEntriesSkipped ==
    (last_call # NoCall /\ OfNamedEntries(last_call.before)) =>
        /\ ~last_call.raised
        /\ LET kept == ReadItems(WellFormedItems(last_call.before))
               new_ep == [date_str |-> last_call.date_str,
                          mp3_filename |-> Mp3Filename(last_call.date_str),
                          size_bytes |-> last_call.size_bytes]
           IN  Triples(written) = Triples(Upsert(kept, new_ep))

-----------------------------------------------------------------------------
(* C13 *)

\* the 12-hour phrase of a time of day: 9am, 2:30pm, 12:15am
TwelveHourPhrase(wall) ==
    LET h == HourOf(wall)
        m == MinuteOf(wall)
    IN  ToString(((h + 11) % 12) + 1)
        \o (IF m = 0 THEN "" ELSE IF m < 10 THEN ":0" \o ToString(m) ELSE ":" \o ToString(m))
        \o (IF h < 12 THEN "am" ELSE "pm")

\* "<Day> <time>: <title>."
ExpectedSentence(ev) ==
    <<DAY_NAMES_EN[Weekday(ev.start.wall) + 1], " ">>
    \o (IF ev.is_all_day THEN <<"all", " ", "day">> ELSE <<TwelveHourPhrase(ev.start.wall)>>)
    \o <<":", " ">> \o ev.summary \o <<".">>

\* the events by day Monday..Sunday, the events of one day in input order
OrderedByDay(events) ==
    LET n == Len(events)
        wd(i) == Weekday(events[i].start.wall)
        perm == CHOOSE p \in [1..n -> 1..n] :
                    /\ \A i, j \in 1..n : i # j => p[i] # p[j]
                    /\ \A i, j \in 1..n :
                          i < j => \/ wd(p[i]) < wd(p[j])
                                   \/ wd(p[i]) = wd(p[j]) /\ p[i] < p[j]
    IN  [i \in 1..n |-> events[perm[i]]]

\* one sentence per event, a space between two sentences
ExpectedEnglish(events) ==
    LET ordered == OrderedByDay(events)
    IN  Join(<<" ">>, [i \in 1..Len(events) |-> ExpectedSentence(ordered[i])])

\* the text of one sentence per event is within the two limits: words
\* between spaces, sentences between ". " boundaries
WithinLimits(events, max_words) ==
    /\ Len(Words(ExpectedEnglish(events))) <= max_words
    /\ Len(Sentences(ExpectedEnglish(events))) <= MAX_SENTENCES

\* C13: in English template mode, for events within the word and sentence
\* limits, generate_summary returns one sentence "<Day> <time>: <title>." per
\* event, by day Monday..Sunday and in input order within a day; the one
\* event Standup on Monday 09:00 gives exactly "Monday 9am: Standup.".
C13_EnglishTemplateExact ==
    (sum_pc # "idle" /\ sum_args.language = "en" /\ sum_args.events # <<>>
        /\ WithinLimits(sum_args.events, sum_args.max_words)) =>
        /\ sum_pc = "returned"
        /\ summary = ExpectedEnglish(sum_args.events)
        /\ sum_args.events = <<Event(<<"Standup">>, 0, 9, 0, FALSE)>> =>
              summary = <<"Monday", " ", "9am", ":", " ", "Standup", ".">>

\* an event that began on the Sunday before the week comes first in the
\* input and last in the text, after Monday's event
C13_Witness ==
    /\ sum_pc = "returned"
    /\ sum_args.language = "en"
    /\ sum_args.events = <<Event(<<"Vylet">>, -1, 22, 0, FALSE),
                           Event(<<"Team", " ", "sync", " ", "call">>, 0, 14, 30, FALSE)>>
    /\ WithinLimits(sum_args.events, sum_args.max_words)
    /\ summary = <<"Monday", " ", "2:30pm", ":", " ", "Team", " ", "sync", " ", "call", ".",
                   " ", "Sunday", " ", "10pm", ":", " ", "Vylet", ".">>

-----------------------------------------------------------------------------
(* C14 *)

StageOrder == <<"fetch", "merge", "compose", "persist", "synthesize", "feed">>

IsPrefix(s, t) == Len(s) <= Len(t) /\ s = SubSeq(t, 1, Len(s))

\* a step reads or writes the feed document
FeedTouched == feed' # feed \/ written' # written \/ last_call' # last_call

\* C14: the stages of a run occur in the order fetch, merge, compose,
\* persist summary, synthesize audio, feed upsert, and a step touches the
\* feed document only when the five earlier stages have succeeded, a base
\* URL is configured and the skip flag is not set; after a failed stage no
\* step follows.
C14_StagesInOrderFeedLast ==
    [][/\ IsPrefix(stages', StageOrder)
       /\ FeedTouched =>
             /\ stages = SubSeq(StageOrder, 1, 5)
             /\ stages' = StageOrder
             /\ cfg.RSS_BASE_URL # "" /\ ~cfg.skip_rss
       /\ pc = "failed" => pc' = "failed" /\ ~FeedTouched]_vars

\* a run went through the six stages and wrote the episode of its date
C14_Witness ==
    /\ pc = "done"
    /\ stages = StageOrder
    /\ last_call # NoCall /\ ~last_call.raised
    /\ last_call.date_str = run_date
    /\ \E i \in 1..Len(feed.items) : ItemDate(feed.items[i]) = run_date

-----------------------------------------------------------------------------
(* C15 *)

\* what the document says of its episodes: date, address of the audio file
\* (base URL and filename) and size
EntriesOf(doc) ==
    {<<ItemDate(doc.items[i]), doc.items[i].url, doc.items[i].length>> :
        i \in 1..Len(doc.items)}

\* C15: no append_episode_to_feed call removes or changes an episode: every
\* date the document held before the call is in the document after it, with
\* the same filename and size.
C15_AppendOnly ==
    [][EntriesOf(feed) \subseteq EntriesOf(feed')]_vars

\* a call for the oldest of three dates, with another size than the one the
\* document has for it, left the three entries as they were
C15_Witness ==
    /\ last_call # NoCall /\ ~last_call.raised
    /\ Len(last_call.before.items) = 3
    /\ last_call.date_str = DateStr(0)
    /\ last_call.size_bytes = 2000
    /\ <<DateStr(0), BASE_URL \o <<"/">> \o Mp3Filename(DateStr(0)), <<"0">> >>
          \in EntriesOf(last_call.before)
    /\ EntriesOf(feed) = EntriesOf(last_call.before)

-----------------------------------------------------------------------------
(* C16 *)

\* the date of the Monday the fetch window of the run starts on
WindowStartDate == DateStr(window.start.wall \div DAY)

\* C16: the date key of a run, and with it the names of the summary file,
\* the audio file and the feed episode, is the date of the Monday its fetch
\* window starts on, also when the clock advances between the two reads.
C16_DateKeyIsWindowStart ==
    run_date # <<>> =>
        /\ run_date = WindowStartDate
        /\ summary_file.exists => summary_file.date_str = WindowStartDate
        /\ mp3_file.exists => mp3_file.date_str = WindowStartDate
        /\ (pc = "done" /\ last_call # NoCall) => last_call.date_str = WindowStartDate


=============================================================================
